---- MODULE Spec2Model ----
(***************************************************************************)
(* DynoHook: the vtable hook handle (VHook) and the saved-buffer stacks of *)
(* a calling convention (ICallingConvention).                              *)
(*                                                                         *)
(* Spec      : VHook handles, the vtable slots they name, the holder that  *)
(*             swaps the slots, and threads calling through the slots.     *)
(* SpecConv  : one calling convention shared by the threads that enter one *)
(*             hook, with its two stacks of saved buffers.                 *)
(* SpecNest  : the same convention used by a single thread whose calls of  *)
(*             the original nest.                                          *)
(* SpecBare  : SpecNest with restoreReturnValue also called on the empty   *)
(*             stack.                                                      *)
(* SpecInit  : conventions of every signature as constructed, and init().  *)
(* SpecArgs  : initialised conventions of every argument list, their       *)
(*             arguments saved and restored.                               *)
(* SpecAlign : calls of Align.                                             *)
(***************************************************************************)
EXTENDS Integers, Sequences, FiniteSets, TLC

\* ------------------------------------------------------------------ bounds
NumHandles == 2
NumAddrs == 2
NumCallers == 1
NumThreads == 2

Handles == 1..NumHandles
Addrs == 1..NumAddrs
Callers == 1..NumCallers
Threads == 1..NumThreads

\* ------------------------------------------------------------ VHook state
VARIABLES
    ndebug,       \* the build: TRUE when assert() is compiled out (NDEBUG)
    aborted,      \* a failed assert() has ended the process
    life,         \* per handle: "none" (not constructed), "alive", "dead"
    m_fnAddress,  \* per handle: VHook::m_fnAddress
    m_hooked,     \* per handle: Hook::m_hooked
    m_bridge,     \* per handle: the bridge createBridge() produced, or NULL
    slot,         \* per address: the pointer held in the vtable slot there
    saved,        \* per handle: the original pointer the holder stored, or NULL
    pc,           \* per thread: where the thread is in a call through a slot
    slotAtHook,   \* history: per handle, what the slot held when hook() last succeeded
    ret           \* the API call that has just returned: what was called, on which
                  \* handle, what it returned, and the calls it made in turn

vhookVars == <<ndebug, aborted, life, m_fnAddress, m_hooked, m_bridge, slot, saved, pc,
              slotAtHook, ret>>

NULL == <<"null", 0>>
Fn(a) == <<"fn", a>>
Bridge(h) == <<"bridge", h>>

Idle == [loc |-> "idle", a |-> 0, h |-> 0]

\* What the caller of an API function gets back; NoCall once another step follows.
Returned(op, h, val, calls) == [op |-> op, h |-> h, val |-> val, calls |-> calls]
NoCall == [op |-> "none", h |-> 0, val |-> "none", calls |-> <<>>]

\* ------------------------------------------- calling-convention state
VARIABLES
    m_arguments,           \* ICallingConvention::m_arguments: descriptors [type, reg, size]
    m_return,              \* ICallingConvention::m_return
    m_alignment,           \* ICallingConvention::m_alignment
    m_stackSize,           \* ICallingConvention::m_stackSize
    m_registerSize,        \* ICallingConvention::m_registerSize
    m_savedReturnBuffers,  \* stack (last element is back()) of saved return buffers
    m_savedCallArguments,  \* stack (last element is back()) of saved argument buffers
    argMem,                \* per thread: the bytes at getArgumentPtr(i, registers)
    retMem,                \* per thread: the bytes at getReturnPtr(registers)
    pending,               \* per thread: the saves the thread has not restored yet
    cret                   \* the last init/save/restore call and the thread that made it

convVars == <<m_arguments, m_return, m_alignment, m_stackSize, m_registerSize,
              m_savedReturnBuffers, m_savedCallArguments, argMem, retMem, pending, cret>>

\* ------------------------------------------------------------ Align state
VARIABLES
    alignCall     \* a call of Align: its two arguments and, once it has returned,
                  \* its result

vars == <<vhookVars, convVars, alignCall>>

\* ------------------------------------------------------------------ VHook

\* VHook::VHook: assert(fnAddress != 0) ends a build with assertions; a build
\* without them stores the null address.
VHook_ctor(h, fnAddress) ==
    /\ ~aborted
    /\ UNCHANGED <<convVars, alignCall>>
    /\ life[h] = "none"
    /\ IF fnAddress = 0 /\ ~ndebug
       THEN /\ aborted' = TRUE
            /\ ret' = Returned("VHook", h, "abort", <<>>)
            /\ UNCHANGED <<life, m_fnAddress, m_hooked, m_bridge>>
       ELSE /\ life' = [life EXCEPT ![h] = "alive"]
            /\ m_fnAddress' = [m_fnAddress EXCEPT ![h] = fnAddress]
            /\ m_hooked' = [m_hooked EXCEPT ![h] = FALSE]
            /\ m_bridge' = [m_bridge EXCEPT ![h] = NULL]
            /\ ret' = Returned("VHook", h, "void", <<>>)
            /\ UNCHANGED aborted
    /\ UNCHANGED <<ndebug, slot, saved, pc, slotAtHook>>

\* NatHook::createBridge: generates the bridge of handle h in executable memory
\* of its own, or fails; it does not touch the target.
createBridge(h, ok) ==
    IF ok THEN [m_bridge EXCEPT ![h] = Bridge(h)] ELSE m_bridge

\* History: the pointer the slot of handle h holds as hook() succeeds.
SlotSeen(h, ok) ==
    IF ok /\ m_fnAddress[h] \in Addrs
    THEN [slotAtHook EXCEPT ![h] = slot[m_fnAddress[h]]]
    ELSE slotAtHook

\* VHook::hook writing the bridge address into the slot itself.
hook_swaps(h) ==
    /\ ~aborted
    /\ UNCHANGED <<convVars, alignCall>>
    /\ life[h] = "alive"
    /\ IF m_hooked[h]
       THEN /\ aborted' = ~ndebug
            /\ ret' = Returned("hook", h, IF ndebug THEN "false" ELSE "abort", <<>>)
            /\ UNCHANGED <<m_hooked, m_bridge, slot, slotAtHook>>
       ELSE \E ok \in BOOLEAN :
            /\ m_bridge' = createBridge(h, ok)
            /\ m_hooked' = [m_hooked EXCEPT ![h] = ok]
            /\ slot' = IF ok /\ m_fnAddress[h] \in Addrs
                       THEN [slot EXCEPT ![m_fnAddress[h]] = Bridge(h)]
                       ELSE slot
            /\ slotAtHook' = SlotSeen(h, ok)
            /\ ret' = Returned("hook", h, IF ok THEN "true" ELSE "false", <<"createBridge">>)
            /\ UNCHANGED aborted
    /\ UNCHANGED <<ndebug, life, m_fnAddress, saved, pc>>

\* VHook::hook with the already-hooked test dropped: the bridge is created again.
hook_again(h) ==
    /\ ~aborted
    /\ UNCHANGED <<convVars, alignCall>>
    /\ life[h] = "alive"
    /\ \E ok \in BOOLEAN :
            /\ m_bridge' = createBridge(h, ok)
            /\ m_hooked' = [m_hooked EXCEPT ![h] = ok]
            /\ slotAtHook' = SlotSeen(h, ok)
            /\ ret' = Returned("hook", h, IF ok THEN "true" ELSE "false", <<"createBridge">>)
    /\ UNCHANGED <<ndebug, aborted, life, m_fnAddress, slot, saved, pc>>

\* VHook::hook with m_hooked set before the bridge is created.
hook_early(h) ==
    /\ ~aborted
    /\ UNCHANGED <<convVars, alignCall>>
    /\ life[h] = "alive"
    /\ IF m_hooked[h]
       THEN /\ aborted' = ~ndebug
            /\ ret' = Returned("hook", h, IF ndebug THEN "false" ELSE "abort", <<>>)
            /\ UNCHANGED <<m_hooked, m_bridge, slotAtHook>>
       ELSE \E ok \in BOOLEAN :
            /\ m_hooked' = [m_hooked EXCEPT ![h] = TRUE]
            /\ m_bridge' = createBridge(h, ok)
            /\ slotAtHook' = SlotSeen(h, ok)
            /\ ret' = Returned("hook", h, IF ok THEN "true" ELSE "false", <<"createBridge">>)
            /\ UNCHANGED aborted
    /\ UNCHANGED <<ndebug, life, m_fnAddress, slot, saved, pc>>

\* VHook::hook clearing m_fnAddress once the bridge is made.
hook_retargets(h) ==
    /\ ~aborted
    /\ UNCHANGED <<convVars, alignCall>>
    /\ life[h] = "alive"
    /\ IF m_hooked[h]
       THEN /\ aborted' = ~ndebug
            /\ ret' = Returned("hook", h, IF ndebug THEN "false" ELSE "abort", <<>>)
            /\ UNCHANGED <<m_hooked, m_bridge, slotAtHook, m_fnAddress>>
       ELSE \E ok \in BOOLEAN :
            /\ m_bridge' = createBridge(h, ok)
            /\ m_hooked' = [m_hooked EXCEPT ![h] = ok]
            /\ m_fnAddress' = IF ok THEN [m_fnAddress EXCEPT ![h] = 0] ELSE m_fnAddress
            /\ slotAtHook' = SlotSeen(h, ok)
            /\ ret' = Returned("hook", h, IF ok THEN "true" ELSE "false", <<"createBridge">>)
            /\ UNCHANGED aborted
    /\ UNCHANGED <<ndebug, life, slot, saved, pc>>

\* VHook::hook
hook(h) ==
    /\ ~aborted
    /\ UNCHANGED <<convVars, alignCall>>
    /\ life[h] = "alive"
    /\ IF m_hooked[h]
       THEN \* assert(!m_hooked); without assertions: warn, return false
            /\ aborted' = ~ndebug
            /\ ret' = Returned("hook", h, IF ndebug THEN "false" ELSE "abort", <<>>)
            /\ UNCHANGED <<m_hooked, m_bridge, slotAtHook>>
       ELSE \* createBridge() failed: return false; else m_hooked = true
            \E ok \in BOOLEAN :
            /\ m_bridge' = createBridge(h, ok)
            /\ m_hooked' = [m_hooked EXCEPT ![h] = ok]
            /\ slotAtHook' = SlotSeen(h, ok)
            /\ ret' = Returned("hook", h, IF ok THEN "true" ELSE "false", <<"createBridge">>)
            /\ UNCHANGED aborted
    /\ UNCHANGED <<ndebug, life, m_fnAddress, slot, saved, pc>>

\* VHook::unhook writing a pointer into the slot (here: the original function).
unhook_writes(h) ==
    /\ ~aborted
    /\ UNCHANGED <<convVars, alignCall>>
    /\ life[h] = "alive"
    /\ IF ~m_hooked[h]
       THEN /\ aborted' = ~ndebug
            /\ ret' = Returned("unhook", h, IF ndebug THEN "false" ELSE "abort", <<>>)
            /\ UNCHANGED <<m_hooked, slot>>
       ELSE /\ m_hooked' = [m_hooked EXCEPT ![h] = FALSE]
            /\ slot' = IF m_fnAddress[h] \in Addrs
                       THEN [slot EXCEPT ![m_fnAddress[h]] = Fn(m_fnAddress[h])]
                       ELSE slot
            /\ ret' = Returned("unhook", h, "true", <<>>)
            /\ UNCHANGED aborted
    /\ UNCHANGED <<ndebug, life, m_fnAddress, m_bridge, saved, pc, slotAtHook>>

\* VHook::unhook with the not-hooked test dropped: it always reports success.
unhook_always(h) ==
    /\ ~aborted
    /\ UNCHANGED <<convVars, alignCall>>
    /\ life[h] = "alive"
    /\ m_hooked' = [m_hooked EXCEPT ![h] = FALSE]
    /\ ret' = Returned("unhook", h, "true", <<>>)
    /\ UNCHANGED <<ndebug, aborted, life, m_fnAddress, m_bridge, slot, saved, pc, slotAtHook>>

\* VHook::unhook
unhook(h) ==
    /\ ~aborted
    /\ UNCHANGED <<convVars, alignCall>>
    /\ life[h] = "alive"
    /\ IF ~m_hooked[h]
       THEN \* assert(m_hooked); without assertions: log, return false
            /\ aborted' = ~ndebug
            /\ ret' = Returned("unhook", h, IF ndebug THEN "false" ELSE "abort", <<>>)
            /\ UNCHANGED m_hooked
       ELSE \* m_hooked = false; "restore should be handled by holder"
            /\ m_hooked' = [m_hooked EXCEPT ![h] = FALSE]
            /\ ret' = Returned("unhook", h, "true", <<>>)
            /\ UNCHANGED aborted
    /\ UNCHANGED <<ndebug, life, m_fnAddress, m_bridge, slot, saved, pc, slotAtHook>>

\* VHook::~VHook without the unhook() call.
VHook_dtor_forgets(h) ==
    /\ ~aborted
    /\ UNCHANGED <<convVars, alignCall>>
    /\ life[h] = "alive"
    /\ life' = [life EXCEPT ![h] = "dead"]
    /\ ret' = Returned("~VHook", h, "void", <<>>)
    /\ UNCHANGED <<ndebug, aborted, m_fnAddress, m_hooked, m_bridge, slot, saved, pc, slotAtHook>>

\* VHook::~VHook: if (m_hooked) unhook(); the assert of unhook() holds there.
VHook_dtor(h) ==
    /\ ~aborted
    /\ UNCHANGED <<convVars, alignCall>>
    /\ life[h] = "alive"
    /\ life' = [life EXCEPT ![h] = "dead"]
    /\ IF m_hooked[h]
       THEN /\ m_hooked' = [m_hooked EXCEPT ![h] = FALSE]
            /\ ret' = Returned("~VHook", h, "void", <<"unhook">>)
       ELSE /\ ret' = Returned("~VHook", h, "void", <<>>)
            /\ UNCHANGED m_hooked
    /\ UNCHANGED <<ndebug, aborted, m_fnAddress, m_bridge, slot, saved, pc, slotAtHook>>

\* ---------------------------------------------------------------- holder
\* The holder of a hooked handle swaps the slot: it reads and stores the
\* current pointer and writes the bridge address in its place.
HolderInstall(h) ==
    /\ ~aborted
    /\ UNCHANGED <<convVars, alignCall>>
    /\ life[h] = "alive"
    /\ m_hooked[h]
    /\ m_fnAddress[h] \in Addrs
    /\ saved[h] = NULL
    /\ saved' = [saved EXCEPT ![h] = slot[m_fnAddress[h]]]
    /\ slot' = [slot EXCEPT ![m_fnAddress[h]] = m_bridge[h]]
    /\ ret' = NoCall
    /\ UNCHANGED <<ndebug, aborted, life, m_fnAddress, m_hooked, m_bridge, pc, slotAtHook>>

\* The holder writes the saved pointer back.
HolderRestore(h) ==
    /\ ~aborted
    /\ UNCHANGED <<convVars, alignCall>>
    /\ saved[h] # NULL
    /\ slot' = [slot EXCEPT ![m_fnAddress[h]] = saved[h]]
    /\ saved' = [saved EXCEPT ![h] = NULL]
    /\ ret' = NoCall
    /\ UNCHANGED <<ndebug, aborted, life, m_fnAddress, m_hooked, m_bridge, pc, slotAtHook>>

\* --------------------------------------------------------------- threads
\* A thread calls through the slot at address a: it runs what the slot points at.
Enter(t, a) ==
    /\ ~aborted
    /\ UNCHANGED <<convVars, alignCall>>
    /\ pc[t] = Idle
    /\ pc' = [pc EXCEPT ![t] =
                IF slot[a][1] = "bridge"
                THEN [loc |-> "bridge", a |-> a, h |-> slot[a][2]]
                ELSE [loc |-> "orig", a |-> a, h |-> 0]]
    /\ ret' = NoCall
    /\ UNCHANGED <<ndebug, aborted, life, m_fnAddress, m_hooked, m_bridge, slot, saved, slotAtHook>>

\* The bridge continues into the original function.
CallOriginal(t) ==
    /\ ~aborted
    /\ UNCHANGED <<convVars, alignCall>>
    /\ pc[t].loc = "bridge"
    /\ pc' = [pc EXCEPT ![t] = [loc |-> "orig", a |-> pc[t].a, h |-> 0]]
    /\ ret' = NoCall
    /\ UNCHANGED <<ndebug, aborted, life, m_fnAddress, m_hooked, m_bridge, slot, saved, slotAtHook>>

\* The call returns to its caller.
Leave(t) ==
    /\ ~aborted
    /\ UNCHANGED <<convVars, alignCall>>
    /\ pc[t].loc = "orig"
    /\ pc' = [pc EXCEPT ![t] = Idle]
    /\ ret' = NoCall
    /\ UNCHANGED <<ndebug, aborted, life, m_fnAddress, m_hooked, m_bridge, slot, saved, slotAtHook>>

InitVHook ==
    /\ ndebug \in BOOLEAN
    /\ aborted = FALSE
    /\ life = [h \in Handles |-> "none"]
    /\ m_fnAddress = [h \in Handles |-> 0]
    /\ m_hooked = [h \in Handles |-> FALSE]
    /\ m_bridge = [h \in Handles |-> NULL]
    /\ slot = [a \in Addrs |-> Fn(a)]
    /\ saved = [h \in Handles |-> NULL]
    /\ pc = [t \in Callers |-> Idle]
    /\ slotAtHook = [h \in Handles |-> NULL]
    /\ ret = NoCall

\* ------------------------------------------------- calling convention
MaxDepth == 2
MaxByte == 1

SizeofLong == 8
SizeofPointer == 8

Bytes == 0..MaxByte

\* enum class DataType
DataTypes == {"Void", "Bool", "Char", "UChar", "Short", "UShort", "Int", "UInt",
              "Long", "ULong", "LongLong", "ULongLong", "Float", "Double",
              "Pointer", "String", "M128", "M256", "M512", "Object"}

\* struct DataObject
DataObject(type, reg, size) == [type |-> type, reg |-> reg, size |-> size]

\* Align without the test for a size that is aligned already.
Align_adds(size, alignment) ==
    size + (alignment - (size % alignment))

\* Align
Align(size, alignment) ==
    LET unaligned == size % alignment
    IN  IF unaligned = 0 THEN size ELSE size + (alignment - unaligned)

\* GetDataTypeSize: the size of a data type after applying alignment; Void is 0
\* and a type outside the switch (Object) falls to the default and is 0.
GetDataTypeSize(type, alignment) ==
    CASE type = "Void" -> 0
      [] type \in {"Bool", "Char", "UChar"} -> Align(1, alignment)
      [] type \in {"Short", "UShort"} -> Align(2, alignment)
      [] type \in {"Int", "UInt", "Float"} -> Align(4, alignment)
      [] type \in {"Long", "ULong"} -> Align(SizeofLong, alignment)
      [] type \in {"LongLong", "ULongLong", "Double"} -> Align(8, alignment)
      [] type \in {"Pointer", "String"} -> Align(SizeofPointer, alignment)
      [] type = "M128" -> Align(4 * 4, alignment)
      [] type = "M256" -> Align(4 * 8, alignment)
      [] type = "M512" -> Align(4 * 16, alignment)
      [] OTHER -> 0

\* DataObject::size is a uint16_t
U16(n) == n % 65536

RECURSIVE SumSizes(_, _)
\* The sum of the sizes of the first n descriptors of args.
SumSizes(args, n) ==
    IF n = 0 THEN 0 ELSE SumSizes(args, n - 1) + args[n].size

RECURSIVE SumWhere(_, _, _)
\* The sum of the sizes of the first n descriptors of args that are (onStack)
\* or are not (~onStack) stack resident.
SumWhere(args, n, onStack) ==
    IF n = 0 THEN 0
    ELSE SumWhere(args, n - 1, onStack)
         + (IF (args[n].reg = "NONE") = onStack THEN args[n].size ELSE 0)

\* init filling in the size of the type without applying the alignment.
init_arguments_unaligned(args, alignment) ==
    [i \in DOMAIN args |->
        IF args[i].size = 0
        THEN [args[i] EXCEPT !.size = U16(GetDataTypeSize(args[i].type, 1))]
        ELSE args[i]]

\* ICallingConvention::init, the descriptors: a size of 0 is filled in.
init_arguments(args, alignment) ==
    [i \in DOMAIN args |->
        IF args[i].size = 0
        THEN [args[i] EXCEPT !.size = U16(GetDataTypeSize(args[i].type, alignment))]
        ELSE args[i]]

\* ICallingConvention::init, the return descriptor.
init_return(r, alignment) ==
    IF r.size = 0 THEN [r EXCEPT !.size = U16(GetDataTypeSize(r.type, alignment))] ELSE r

\* init without "m_stackSize = 0": the sizes are added to what was there.
init_stackSize_accumulates(args, alignment) ==
    m_stackSize + SumWhere(init_arguments(args, alignment), Len(args), TRUE)

\* ICallingConvention::init, m_stackSize and m_registerSize.
init_stackSize(args, alignment) ==
    SumWhere(init_arguments(args, alignment), Len(args), TRUE)

init_registerSize(args, alignment) ==
    SumWhere(init_arguments(args, alignment), Len(args), FALSE)

getArgStackSize == m_stackSize
getArgRegisterSize == m_registerSize

\* The conventions the threads run with: argument descriptors, return
\* descriptor and alignment as handed to the constructor.
Conventions ==
    { [args |-> <<DataObject("Int", "NONE", 0), DataObject("Pointer", "RCX", 0)>>,
       ret |-> DataObject("Void", "NONE", 0), alignment |-> 4],
      [args |-> <<DataObject("Char", "NONE", 0)>>,
       ret |-> DataObject("Int", "RAX", 0), alignment |-> 8],
      [args |-> <<DataObject("Bool", "RCX", 2), DataObject("Short", "NONE", 0)>>,
       ret |-> DataObject("Void", "NONE", 0), alignment |-> 4],
      [args |-> <<>>,
       ret |-> DataObject("Pointer", "RAX", 0), alignment |-> 8] }

\* n bytes of value b
Fill(n, b) == [k \in 1..n |-> b]

\* memcpy(dst + offset, src, Len(src)) into the buffer dst; bytes past the end
\* of dst are outside the buffer and are not part of it.
CopyIn(dst, offset, src) ==
    [k \in 1..Len(dst) |->
        IF k > offset /\ k <= offset + Len(src) THEN src[k - offset] ELSE dst[k]]

\* size bytes of the buffer src from offset on (0 where src ends before).
CopyOut(src, offset, size) ==
    [k \in 1..size |-> IF offset + k <= Len(src) THEN src[offset + k] ELSE 0]

RECURSIVE SaveLoop_overlap(_, _, _)
\* The save loop with the offset never advanced: every argument is copied to
\* the start of the buffer.
SaveLoop_overlap(buf, mem, n) ==
    IF n = 0 THEN buf
    ELSE CopyIn(SaveLoop_overlap(buf, mem, n - 1), 0,
                CopyOut(mem[n], 0, m_arguments[n].size))

RECURSIVE SaveLoop(_, _, _)
\* saveCallArguments, the loop over the first n arguments: the buffer after
\* copying argument i to offset (sum of the sizes before it).
SaveLoop(buf, mem, n) ==
    IF n = 0 THEN buf
    ELSE CopyIn(SaveLoop(buf, mem, n - 1), SumSizes(m_arguments, n - 1),
                CopyOut(mem[n], 0, m_arguments[n].size))

\* restoreCallArguments, the loop: argument i is read back from its offset.
RestoreLoop(buf) ==
    [i \in DOMAIN m_arguments |->
        CopyOut(buf, SumSizes(m_arguments, i - 1), m_arguments[i].size)]

Back(stack) == stack[Len(stack)]
PopBack(stack) == SubSeq(stack, 1, Len(stack) - 1)

CallReturned(op, t) == [op |-> op, t |-> t]

\* saveCallArguments with the buffer inserted at the front of the stack.
saveCallArguments_front(t) ==
    /\ ~aborted
    /\ Len(m_savedCallArguments) < MaxDepth
    /\ LET argTotalSize == getArgStackSize + getArgRegisterSize
           buf == SaveLoop(Fill(argTotalSize, 0), argMem[t], Len(m_arguments))
       IN  /\ m_savedCallArguments' = <<buf>> \o m_savedCallArguments
           /\ cret' = CallReturned("saveCallArguments", t)
    /\ pending' = [pending EXCEPT ![t].args = Append(@, argMem[t])]
    /\ UNCHANGED <<m_arguments, m_return, m_alignment, m_stackSize, m_registerSize,
                   m_savedReturnBuffers, argMem, retMem>>
    /\ UNCHANGED <<vhookVars, alignCall>>

\* saveCallArguments sizing its buffer by getArgStackSize() alone.
saveCallArguments_stackOnly(t) ==
    /\ ~aborted
    /\ Len(m_savedCallArguments) < MaxDepth
    /\ LET argTotalSize == getArgStackSize
           buf == SaveLoop(Fill(argTotalSize, 0), argMem[t], Len(m_arguments))
       IN  /\ m_savedCallArguments' = Append(m_savedCallArguments, buf)
           /\ cret' = CallReturned("saveCallArguments", t)
    /\ pending' = [pending EXCEPT ![t].args = Append(@, argMem[t])]
    /\ UNCHANGED <<m_arguments, m_return, m_alignment, m_stackSize, m_registerSize,
                   m_savedReturnBuffers, argMem, retMem>>
    /\ UNCHANGED <<vhookVars, alignCall>>

\* ICallingConvention::saveCallArguments(registers), registers being the
\* snapshot of thread t.
saveCallArguments(t) ==
    /\ ~aborted
    /\ Len(m_savedCallArguments) < MaxDepth
    /\ LET argTotalSize == getArgStackSize + getArgRegisterSize
           buf == SaveLoop(Fill(argTotalSize, 0), argMem[t], Len(m_arguments))
       IN  /\ m_savedCallArguments' = Append(m_savedCallArguments, buf)
           /\ cret' = CallReturned("saveCallArguments", t)
    /\ pending' = [pending EXCEPT ![t].args = Append(@, argMem[t])]
    /\ UNCHANGED <<m_arguments, m_return, m_alignment, m_stackSize, m_registerSize,
                   m_savedReturnBuffers, argMem, retMem>>
    /\ UNCHANGED <<vhookVars, alignCall>>

\* ICallingConvention::restoreCallArguments(registers); the thread calls it
\* after a save of its own.
restoreCallArguments(t) ==
    /\ ~aborted
    /\ pending[t].args # <<>>
    /\ m_savedCallArguments # <<>>
    /\ LET savedCallArguments == Back(m_savedCallArguments)
       IN  /\ argMem' = [argMem EXCEPT ![t] = RestoreLoop(savedCallArguments)]
           /\ cret' = CallReturned("restoreCallArguments", t)
    /\ m_savedCallArguments' = PopBack(m_savedCallArguments)
    /\ pending' = [pending EXCEPT ![t].args = PopBack(@)]
    /\ UNCHANGED <<m_arguments, m_return, m_alignment, m_stackSize, m_registerSize,
                   m_savedReturnBuffers, retMem>>
    /\ UNCHANGED <<vhookVars, alignCall>>

\* saveReturnValue with one stack for both kinds of buffer: the return buffer
\* is pushed on m_savedCallArguments.
saveReturnValue_shared(t) ==
    /\ ~aborted
    /\ Len(m_savedCallArguments) < MaxDepth
    /\ LET savedReturnValue == CopyIn(Fill(m_return.size, 0), 0,
                                      CopyOut(retMem[t], 0, m_return.size))
       IN  /\ m_savedCallArguments' = Append(m_savedCallArguments, savedReturnValue)
           /\ cret' = CallReturned("saveReturnValue", t)
    /\ pending' = [pending EXCEPT ![t].ret = Append(@, retMem[t])]
    /\ UNCHANGED <<m_arguments, m_return, m_alignment, m_stackSize, m_registerSize,
                   m_savedReturnBuffers, argMem, retMem>>
    /\ UNCHANGED <<vhookVars, alignCall>>

\* ICallingConvention::saveReturnValue(registers)
saveReturnValue(t) ==
    /\ ~aborted
    /\ Len(m_savedReturnBuffers) < MaxDepth
    /\ LET savedReturnValue == CopyIn(Fill(m_return.size, 0), 0,
                                      CopyOut(retMem[t], 0, m_return.size))
       IN  /\ m_savedReturnBuffers' = Append(m_savedReturnBuffers, savedReturnValue)
           /\ cret' = CallReturned("saveReturnValue", t)
    /\ pending' = [pending EXCEPT ![t].ret = Append(@, retMem[t])]
    /\ UNCHANGED <<m_arguments, m_return, m_alignment, m_stackSize, m_registerSize,
                   m_savedCallArguments, argMem, retMem>>
    /\ UNCHANGED <<vhookVars, alignCall>>

\* restoreReturnValue reading the oldest buffer (front) instead of back().
restoreReturnValue_front(t) ==
    /\ ~aborted
    /\ pending[t].ret # <<>>
    /\ m_savedReturnBuffers # <<>>
    /\ LET savedReturnValue == Head(m_savedReturnBuffers)
       IN  /\ retMem' = [retMem EXCEPT ![t] = CopyOut(savedReturnValue, 0, m_return.size)]
           /\ cret' = CallReturned("restoreReturnValue", t)
    /\ m_savedReturnBuffers' = PopBack(m_savedReturnBuffers)
    /\ pending' = [pending EXCEPT ![t].ret = PopBack(@)]
    /\ UNCHANGED <<m_arguments, m_return, m_alignment, m_stackSize, m_registerSize,
                   m_savedCallArguments, argMem>>
    /\ UNCHANGED <<vhookVars, alignCall>>

\* ICallingConvention::restoreReturnValue(registers); onReturnPtrChanged does
\* nothing in the base class.
restoreReturnValue(t) ==
    /\ ~aborted
    /\ pending[t].ret # <<>>
    /\ m_savedReturnBuffers # <<>>
    /\ LET savedReturnValue == Back(m_savedReturnBuffers)
       IN  /\ retMem' = [retMem EXCEPT ![t] = CopyOut(savedReturnValue, 0, m_return.size)]
           /\ cret' = CallReturned("restoreReturnValue", t)
    /\ m_savedReturnBuffers' = PopBack(m_savedReturnBuffers)
    /\ pending' = [pending EXCEPT ![t].ret = PopBack(@)]
    /\ UNCHANGED <<m_arguments, m_return, m_alignment, m_stackSize, m_registerSize,
                   m_savedCallArguments, argMem>>
    /\ UNCHANGED <<vhookVars, alignCall>>

\* ICallingConvention::init
init ==
    /\ ~aborted
    /\ m_arguments' = init_arguments(m_arguments, m_alignment)
    /\ m_return' = init_return(m_return, m_alignment)
    /\ m_stackSize' = init_stackSize(m_arguments, m_alignment)
    /\ m_registerSize' = init_registerSize(m_arguments, m_alignment)
    /\ cret' = CallReturned("init", 0)
    /\ UNCHANGED <<m_alignment, m_savedReturnBuffers, m_savedCallArguments,
                   argMem, retMem, pending>>
    /\ UNCHANGED <<vhookVars, alignCall>>

\* The hooked function or a callback writes argument i of thread t's call.
WriteArgument(t, i, b) ==
    /\ ~aborted
    /\ i \in DOMAIN m_arguments
    /\ argMem' = [argMem EXCEPT ![t][i] = Fill(m_arguments[i].size, b)]
    /\ UNCHANGED <<m_arguments, m_return, m_alignment, m_stackSize, m_registerSize,
                   m_savedReturnBuffers, m_savedCallArguments, retMem, pending, cret>>
    /\ UNCHANGED <<vhookVars, alignCall>>

\* The hooked function or a callback writes the return slot of thread t's call.
WriteReturn(t, b) ==
    /\ ~aborted
    /\ retMem' = [retMem EXCEPT ![t] = Fill(m_return.size, b)]
    /\ UNCHANGED <<m_arguments, m_return, m_alignment, m_stackSize, m_registerSize,
                   m_savedReturnBuffers, m_savedCallArguments, argMem, pending, cret>>
    /\ UNCHANGED <<vhookVars, alignCall>>

\* ICallingConvention::restoreReturnValue(registers) called with no buffer
\* saved: m_savedReturnBuffers.back() of an empty vector is undefined. The
\* build either faults on the read, or goes on: memcpy writes m_return.size
\* bytes of whatever the stray pointer names into the return slot and
\* pop_back() runs on the empty vector (kept here as the empty stack).
restoreReturnValueUnsaved(t) ==
    /\ ~aborted
    /\ m_savedReturnBuffers = <<>>
    /\ cret' = CallReturned("restoreReturnValue", t)
    /\ \/ /\ aborted' = TRUE
          /\ UNCHANGED retMem
       \/ /\ \E b \in Bytes : retMem' = [retMem EXCEPT ![t] = Fill(m_return.size, b)]
          /\ UNCHANGED aborted
    /\ m_savedReturnBuffers' = <<>>
    /\ UNCHANGED <<m_arguments, m_return, m_alignment, m_stackSize, m_registerSize,
                   m_savedCallArguments, argMem, pending>>
    /\ UNCHANGED <<ndebug, life, m_fnAddress, m_hooked, m_bridge, slot, saved, pc,
                   slotAtHook, ret, alignCall>>

\* VHook::getAddress
getAddress(h) == m_fnAddress[h]

\* VHook::getMode
getMode(h) == "VTableSwap"

\* A call of Align returns.
CallAlign ==
    /\ ~alignCall.returned
    /\ alignCall' = [alignCall EXCEPT !.returned = TRUE,
                                      !.result = Align(alignCall.size, alignCall.alignment)]
    /\ UNCHANGED <<vhookVars, convVars>>

\* ------------------------------------------------------ specifications
NoConvention ==
    /\ m_arguments = <<>>
    /\ m_return = DataObject("Void", "NONE", 0)
    /\ m_alignment = 1
    /\ m_stackSize = 0
    /\ m_registerSize = 0
    /\ m_savedReturnBuffers = <<>>
    /\ m_savedCallArguments = <<>>
    /\ argMem = [t \in Threads |-> <<>>]
    /\ retMem = [t \in Threads |-> <<>>]
    /\ pending = [t \in Threads |-> [args |-> <<>>, ret |-> <<>>]]
    /\ cret = [op |-> "none", t |-> 0]

NoVHook ==
    /\ ndebug = TRUE
    /\ aborted = FALSE
    /\ life = [h \in Handles |-> "none"]
    /\ m_fnAddress = [h \in Handles |-> 0]
    /\ m_hooked = [h \in Handles |-> FALSE]
    /\ m_bridge = [h \in Handles |-> NULL]
    /\ slot = [a \in Addrs |-> Fn(a)]
    /\ saved = [h \in Handles |-> NULL]
    /\ pc = [t \in Callers |-> Idle]
    /\ slotAtHook = [h \in Handles |-> NULL]
    /\ ret = NoCall

\* No call of Align is looked at.
NoAlign == alignCall = [size |-> 0, alignment |-> 1, returned |-> FALSE, result |-> 0]

Init == InitVHook /\ NoConvention /\ NoAlign

Next ==
    \/ \E h \in Handles, a \in {0} \cup Addrs : VHook_ctor(h, a)
    \/ \E h \in Handles : hook(h)
    \/ \E h \in Handles : unhook(h)
    \/ \E h \in Handles : VHook_dtor(h)
    \/ \E h \in Handles : HolderInstall(h)
    \/ \E h \in Handles : HolderRestore(h)
    \/ \E t \in Callers, a \in Addrs : Enter(t, a)
    \/ \E t \in Callers : CallOriginal(t)
    \/ \E t \in Callers : Leave(t)

Spec == Init /\ [][Next]_vars

\* A convention as its constructor and init() leave it, shared by the threads;
\* every thread's argument and return locations start zeroed.
InitConv ==
    /\ NoVHook
    /\ NoAlign
    /\ \E c \in Conventions :
        /\ m_arguments = init_arguments(c.args, c.alignment)
        /\ m_return = init_return(c.ret, c.alignment)
        /\ m_alignment = c.alignment
        /\ m_stackSize = init_stackSize(c.args, c.alignment)
        /\ m_registerSize = init_registerSize(c.args, c.alignment)
        /\ argMem = [t \in Threads |->
                        [i \in DOMAIN c.args |->
                            Fill(init_arguments(c.args, c.alignment)[i].size, 0)]]
        /\ retMem = [t \in Threads |-> Fill(init_return(c.ret, c.alignment).size, 0)]
    /\ m_savedReturnBuffers = <<>>
    /\ m_savedCallArguments = <<>>
    /\ pending = [t \in Threads |-> [args |-> <<>>, ret |-> <<>>]]
    /\ cret = [op |-> "none", t |-> 0]

ConvStep(t) ==
    \/ saveCallArguments(t)
    \/ restoreCallArguments(t)
    \/ saveReturnValue(t)
    \/ restoreReturnValue(t)
    \/ \E i \in 1..2, b \in Bytes : WriteArgument(t, i, b)
    \/ \E b \in Bytes : WriteReturn(t, b)

\* Threads entering the same hook concurrently.
NextConv ==
    \/ \E t \in Threads : ConvStep(t)
    \/ init

SpecConv == InitConv /\ [][NextConv]_vars

\* One thread, whose calls of the original nest.
NextNest ==
    \/ ConvStep(1)
    \/ init

SpecNest == InitConv /\ [][NextNest]_vars

\* The same thread, which may also call restoreReturnValue with nothing saved.
NextBare ==
    \/ ConvStep(1)
    \/ init
    \/ restoreReturnValueUnsaved(1)

SpecBare == InitConv /\ [][NextBare]_vars

\* ------------------------------------------- conventions in general
MaxArgs == 2
SuppliedSize == 3
MaxAlignment == 4
MaxStale == 1
MaxRawSize == 24

\* RegisterType: NONE (on the stack) or a register
Registers == {"NONE", "RCX"}

\* The descriptors a caller can construct: the size left 0 or supplied.
Descriptors ==
    {DataObject(type, reg, size) :
        type \in DataTypes, reg \in Registers, size \in {0, SuppliedSize}}

\* The descriptors that argument lists of more than one argument are made of.
MixedDescriptors ==
    {d \in Descriptors : d.type \in {"Short", "Int", "Pointer", "Object"}}

\* The argument lists: none, any one descriptor, or up to MaxArgs of the
\* mixed ones.
ArgLists ==
    {<<>>} \cup {<<d>> : d \in Descriptors}
           \cup UNION {[1..n -> MixedDescriptors] : n \in 2..MaxArgs}

\* The signatures conventions are constructed for: an argument list and a
\* return value; the functions of more than one argument return void.
Signatures ==
    {sig \in [args : ArgLists, ret : Descriptors] :
        Len(sig.args) > 1 => sig.ret = DataObject("Void", "NONE", 0)}

\* A convention as its constructor leaves it: init() has not run, and
\* m_stackSize and m_registerSize hold whatever was in memory.
InitCtor ==
    /\ NoVHook
    /\ NoAlign
    /\ \E sig \in Signatures :
        /\ m_arguments = sig.args
        /\ m_return = sig.ret
    /\ m_alignment \in 1..MaxAlignment
    /\ \E stale \in 0..MaxStale :
        /\ m_stackSize = stale
        /\ m_registerSize = stale
    /\ m_savedReturnBuffers = <<>>
    /\ m_savedCallArguments = <<>>
    /\ argMem = [t \in Threads |-> <<>>]
    /\ retMem = [t \in Threads |-> <<>>]
    /\ pending = [t \in Threads |-> [args |-> <<>>, ret |-> <<>>]]
    /\ cret = [op |-> "none", t |-> 0]

\* The derived constructor calls init(); it can be run again.
SpecInit == InitCtor /\ [][init]_vars

\* Any argument list, constructed and initialised, with the arguments of
\* thread 1 in place.
InitArgs ==
    /\ NoVHook
    /\ NoAlign
    /\ m_alignment \in 1..MaxAlignment
    /\ \E args \in ArgLists :
        /\ m_arguments = init_arguments(args, m_alignment)
        /\ m_stackSize = init_stackSize(args, m_alignment)
        /\ m_registerSize = init_registerSize(args, m_alignment)
        /\ argMem = [t \in Threads |->
                        [i \in DOMAIN args |->
                            Fill(init_arguments(args, m_alignment)[i].size, 0)]]
    /\ m_return = DataObject("Void", "NONE", 0)
    /\ retMem = [t \in Threads |-> <<>>]
    /\ m_savedReturnBuffers = <<>>
    /\ m_savedCallArguments = <<>>
    /\ pending = [t \in Threads |-> [args |-> <<>>, ret |-> <<>>]]
    /\ cret = CallReturned("init", 0)

NextArgs ==
    \/ saveCallArguments(1)
    \/ restoreCallArguments(1)
    \/ init

SpecArgs == InitArgs /\ [][NextArgs]_vars

\* Calls of Align on sizes and alignments of every kind.
InitAlign ==
    /\ NoVHook
    /\ NoConvention
    /\ \E size \in 0..MaxRawSize, alignment \in 1..MaxAlignment :
        alignCall = [size |-> size, alignment |-> alignment, returned |-> FALSE, result |-> 0]

SpecAlign == InitAlign /\ [][CallAlign]_vars

\* ================================================================ claims
\* An API call on handle h has just returned in the step.
HookStep(h) == ret'.op = "hook" /\ ret'.h = h
UnhookStep(h) == ret'.op = "unhook" /\ ret'.h = h
DtorStep(h) == ret'.op = "~VHook" /\ ret'.h = h

C3_ReturnsAlreadyHooked ==
    [][\A h \in Handles :
         (HookStep(h) /\ m_hooked[h])
         => /\ ret'.val = "false"
            /\ UNCHANGED <<aborted, life, m_fnAddress, m_hooked, m_bridge, slot, saved>>]_vars

\* C3 amended: hook() on a hooked handle creates no bridge, patches nothing
\* and leaves the handle hooked; it returns false where assert() is compiled
\* out, and where it is not the assert(!m_hooked) ends the process.
C3_AlreadyHookedChangesNothing ==
    [][\A h \in Handles :
         (HookStep(h) /\ m_hooked[h])
         => /\ ret'.calls = <<>>
            /\ UNCHANGED <<life, m_fnAddress, m_hooked, m_bridge, slot, saved, pc>>
            /\ ret'.val = (IF ndebug THEN "false" ELSE "abort")
            /\ aborted' = ~ndebug]_vars

\* C3 witness: hook() has returned false on a handle that is hooked.
C3_Witness ==
    \E h \in Handles :
        /\ ret.op = "hook" /\ ret.h = h /\ ret.val = "false" /\ ret.calls = <<>>
        /\ m_hooked[h] /\ m_bridge[h] = Bridge(h)

\* C4 as stated: unhook() on a handle that is not hooked returns the failure
\* to the caller and changes nothing.
C4_ReturnsNotHooked ==
    [][\A h \in Handles :
         (UnhookStep(h) /\ ~m_hooked[h])
         => /\ ret'.val = "false"
            /\ UNCHANGED <<aborted, life, m_fnAddress, m_hooked, m_bridge, slot, saved>>]_vars

\* C4 amended: unhook() on a handle that is not hooked leaves the handle and
\* the target unchanged; it returns false where assert() is compiled out, and
\* where it is not the assert(m_hooked) ends the process.
C4_NotHookedChangesNothing ==
    [][\A h \in Handles :
         (UnhookStep(h) /\ ~m_hooked[h])
         => /\ UNCHANGED <<life, m_fnAddress, m_hooked, m_bridge, slot, saved, pc>>
            /\ ret'.val = (IF ndebug THEN "false" ELSE "abort")
            /\ aborted' = ~ndebug]_vars

\* C4 witness: unhook() has returned false on a handle that was hooked and
\* unhooked before.
C4_Witness ==
    \E h \in Handles :
        /\ ret.op = "unhook" /\ ret.h = h /\ ret.val = "false"
        /\ ~m_hooked[h] /\ m_bridge[h] = Bridge(h)

\* C5: a hook() whose bridge creation fails returns false, leaves every slot
\* as it was and the handle not hooked, and hook() can be called again.
C5_FailedHookChangesNothing ==
    [][\A h \in Handles :
         (HookStep(h) /\ ret'.calls = <<"createBridge">> /\ ret'.val # "true")
         => /\ ret'.val = "false"
            /\ slot' = slot
            /\ ~m_hooked'[h]
            /\ UNCHANGED <<aborted, life, m_fnAddress, m_hooked, m_bridge, saved, pc>>
            /\ (ENABLED hook(h))']_vars

\* C5 witness: hook() has returned false after trying to create the bridge.
C5_Witness ==
    \E h \in Handles :
        /\ ret.op = "hook" /\ ret.h = h /\ ret.val = "false"
        /\ ret.calls = <<"createBridge">>
        /\ ~m_hooked[h]
        /\ m_fnAddress[h] \in Addrs /\ slot[m_fnAddress[h]] = Fn(m_fnAddress[h])

\* A caller enters the bridge of handle h in the step.
EntersBridge(t, h) == pc[t] = Idle /\ pc'[t].loc = "bridge" /\ pc'[t].h = h

C7_OneActivePerAddress ==
    \A h1, h2 \in Handles :
        (/\ h1 # h2
         /\ life[h1] = "alive" /\ life[h2] = "alive"
         /\ m_hooked[h1] /\ m_hooked[h2])
        => m_fnAddress[h1] # m_fnAddress[h2]

\* C8: destroying a hooked handle calls unhook() exactly once and leaves it
\* not hooked, destroying a handle that is not hooked calls nothing, and no
\* destroyed handle is hooked.
C8_DestructorUnhooks ==
    /\ [][\A h \in Handles :
            DtorStep(h)
            => /\ life[h] = "alive" /\ life'[h] = "dead"
               /\ ret'.calls = (IF m_hooked[h] THEN <<"unhook">> ELSE <<>>)
               /\ ~m_hooked'[h]
               /\ ~aborted']_vars
    /\ [](\A h \in Handles : life[h] = "dead" => ~m_hooked[h])

\* C8 witness: a hooked handle has been destroyed.
C8_Witness ==
    \E h \in Handles :
        /\ ret.op = "~VHook" /\ ret.h = h /\ ret.calls = <<"unhook">>
        /\ life[h] = "dead" /\ ~m_hooked[h] /\ m_bridge[h] = Bridge(h)

\* Thread t restores its arguments (its return value) in the step.
RestoresArguments(t) == Len(pending'[t].args) < Len(pending[t].args)
RestoresReturn(t) == Len(pending'[t].ret) < Len(pending[t].ret)

\* C9: with threads entering one hook concurrently, each thread's restore
\* writes back the bytes that thread saved last.
C9_RestoreOwnBytes ==
    [][\A t \in Threads :
         /\ RestoresArguments(t) => argMem'[t] = Back(pending[t].args)
         /\ RestoresReturn(t) => retMem'[t] = Back(pending[t].ret)]_vars

\* C10: in a single thread's properly nested saves and restores, each restore
\* writes back the bytes of its matching save (the last one not yet restored),
\* and each stack is as deep as the thread has saves that are not restored, so
\* that a finished sequence leaves the depths as it found them.
C10_NestedLifo ==
    /\ [][/\ RestoresArguments(1) => argMem'[1] = Back(pending[1].args)
          /\ RestoresReturn(1) => retMem'[1] = Back(pending[1].ret)]_vars
    /\ [](/\ Len(m_savedCallArguments) = Len(pending[1].args)
          /\ Len(m_savedReturnBuffers) = Len(pending[1].ret))

\* C10 witness: with two saves nested, the inner restore has written back the
\* inner bytes, which differ from the outer ones still saved.
C10_Witness ==
    /\ cret = CallReturned("restoreCallArguments", 1)
    /\ Len(pending[1].args) = 1
    /\ Len(m_savedCallArguments) = 1
    /\ argMem[1] # pending[1].args[1]

\* Thread t saves its arguments (its return value) in the step.
SavesArguments(t) == Len(pending'[t].args) > Len(pending[t].args)
SavesReturn(t) == Len(pending'[t].ret) > Len(pending[t].ret)

\* The bytes of buf that argument i occupies: from the sum of the sizes of the
\* arguments before it, as many as its size.
ArgumentBytes(buf, i) ==
    SubSeq(buf, SumSizes(m_arguments, i - 1) + 1, SumSizes(m_arguments, i))

\* C11: saveCallArguments pushes one buffer on the argument-buffer stack that
\* holds every argument, in declaration order, at the offset that is the sum
\* of the sizes of the arguments before it, each in exactly its size, and
\* leaves the arguments alone; the matching restoreCallArguments, whatever was
\* written to the arguments in between, leaves every argument with the bytes
\* it had at the save and pops that buffer.
C11_ArgumentsRoundTrip ==
    [][/\ SavesArguments(1)
          => /\ Len(m_savedCallArguments') = Len(m_savedCallArguments) + 1
             /\ PopBack(m_savedCallArguments') = m_savedCallArguments
             /\ Len(Back(m_savedCallArguments')) = SumSizes(m_arguments, Len(m_arguments))
             /\ \A i \in DOMAIN m_arguments :
                    /\ Len(argMem[1][i]) = m_arguments[i].size
                    /\ ArgumentBytes(Back(m_savedCallArguments'), i) = argMem[1][i]
             /\ argMem' = argMem
       /\ RestoresArguments(1)
          => /\ \A i \in DOMAIN m_arguments :
                    argMem'[1][i] = Back(pending[1].args)[i]
             /\ m_savedCallArguments' = PopBack(m_savedCallArguments)]_vars

\* C11 witness: a restore has returned two arguments of different bytes to
\* their places, below a save that is still pending and whose bytes were
\* overwritten after it was made.
C11_Witness ==
    /\ cret = CallReturned("restoreCallArguments", 1)
    /\ Len(m_arguments) = 2
    /\ Len(pending[1].args) = 1
    /\ argMem[1] # pending[1].args[1]
    /\ argMem[1][1] # Fill(m_arguments[1].size, 0)
    /\ argMem[1][2] = Fill(m_arguments[2].size, 0)

\* C12: saveReturnValue pushes a copy of the return slot, m_return.size bytes
\* long, on the return-buffer stack, which gets one deeper, and leaves the
\* return slot alone; the matching restoreReturnValue, whatever was written to
\* the return slot in between, pops that buffer (the stack gets one shallower)
\* and leaves the return slot with the bytes it had at the save.
C12_ReturnRoundTrip ==
    [][/\ SavesReturn(1)
          => /\ m_savedReturnBuffers' = Append(m_savedReturnBuffers, retMem[1])
             /\ Len(Back(m_savedReturnBuffers')) = m_return.size
             /\ Len(m_savedReturnBuffers') = Len(m_savedReturnBuffers) + 1
             /\ retMem' = retMem
       /\ RestoresReturn(1)
          => /\ retMem'[1] = Back(pending[1].ret)
             /\ m_savedReturnBuffers' = PopBack(m_savedReturnBuffers)
             /\ Len(m_savedReturnBuffers') = Len(m_savedReturnBuffers) - 1]_vars

\* C12 witness: a restore has put back a return value that is not all zero,
\* below a save that is still pending and whose bytes were overwritten after
\* it was made.
C12_Witness ==
    /\ cret = CallReturned("restoreReturnValue", 1)
    /\ m_return.size > 0
    /\ Len(pending[1].ret) = 1
    /\ Len(m_savedReturnBuffers) = 1
    /\ retMem[1] # pending[1].ret[1]
    /\ retMem[1] # Fill(m_return.size, 0)

\* C13: restoreReturnValue run while the saved-return stack is empty ends the
\* process (a fatal state that is never left) and neither copies into the
\* return slot nor pops the stack.
C13_EmptyRestoreIsFatal ==
    [][\A t \in Threads :
         restoreReturnValueUnsaved(t)
         => /\ aborted'
            /\ retMem' = retMem
            /\ m_savedReturnBuffers' = m_savedReturnBuffers]_vars

\* The size of a value of the type before alignment, in bytes (none for Void
\* and for Object, whose size only the caller knows).
raw_size(type) ==
    CASE type \in {"Void", "Object"} -> 0
      [] type \in {"Bool", "Char", "UChar"} -> 1
      [] type \in {"Short", "UShort"} -> 2
      [] type \in {"Int", "UInt", "Float"} -> 4
      [] type \in {"Long", "ULong"} -> SizeofLong
      [] type \in {"LongLong", "ULongLong", "Double"} -> 8
      [] type \in {"Pointer", "String"} -> SizeofPointer
      [] type = "M128" -> 16
      [] type = "M256" -> 32
      [] type = "M512" -> 64

\* The descriptors of the convention: argument descriptors and return descriptor.
AllDescriptors(args, r) == {args[i] : i \in DOMAIN args} \cup {r}

InitOfDescriptor(before, after) ==
    /\ after.type = before.type
    /\ after.reg = before.reg
    /\ IF before.size = 0
       THEN /\ after.size = Align(raw_size(before.type), m_alignment)
            /\ (after.size > 0) <=> (before.type \notin {"Void", "Object"})
       ELSE after.size = before.size

RECURSIVE SumOver(_, _)
\* The sum of the sizes of the descriptors of args at the indices in I.
SumOver(args, I) ==
    IF I = {} THEN 0
    ELSE LET i == CHOOSE j \in I : TRUE
         IN  args[i].size + SumOver(args, I \ {i})

\* C15: once init() has run (once or again), getArgStackSize() is the sum of
\* the sizes of the arguments whose register is NONE and getArgRegisterSize()
\* the sum of the sizes of the arguments that name a register.
C15_CachedSizesAreSums ==
    cret.op = "init"
    => /\ getArgStackSize
          = SumOver(m_arguments, {i \in DOMAIN m_arguments : m_arguments[i].reg = "NONE"})
       /\ getArgRegisterSize
          = SumOver(m_arguments, {i \in DOMAIN m_arguments : m_arguments[i].reg # "NONE"})

\* C15 witness: init() has run on a convention with two stack arguments of
\* different sizes, where no register was named and the stack size is their sum.
C15_Witness ==
    /\ cret.op = "init"
    /\ Len(m_arguments) = 2
    /\ m_arguments[1].reg = "NONE" /\ m_arguments[2].reg = "NONE"
    /\ m_arguments[1].size = SuppliedSize
    /\ m_arguments[2].size > m_arguments[1].size
    /\ getArgStackSize = m_arguments[1].size + m_arguments[2].size
    /\ getArgRegisterSize = 0

\* ceil(size / alignment) * alignment
CeilMultiple(size, alignment) == ((size + alignment - 1) \div alignment) * alignment

CopiesInside(buf) ==
    /\ Len(buf) = getArgStackSize + getArgRegisterSize
    /\ \A i \in DOMAIN m_arguments :
          SumSizes(m_arguments, i - 1) + m_arguments[i].size <= Len(buf)
    /\ SumSizes(m_arguments, Len(m_arguments)) = Len(buf)

\* C17: on a convention on which init() has run, every saveCallArguments and
\* restoreCallArguments call copies inside the saved buffer: for every
\* argument its offset plus its size is at most
\* getArgStackSize() + getArgRegisterSize(), the length of the buffer, and the
\* offset after the last argument is that length exactly.
C17_CopiesStayInBuffer ==
    /\ [][/\ SavesArguments(1) => CopiesInside(Back(m_savedCallArguments'))
          /\ RestoresArguments(1) => CopiesInside(Back(m_savedCallArguments))]_vars
    /\ [](\A k \in DOMAIN m_savedCallArguments : CopiesInside(m_savedCallArguments[k]))

\* C17 witness: a save has returned on a convention with a stack argument of
\* a supplied size and a register argument of another size; its buffer holds
\* both.
C17_Witness ==
    /\ cret = CallReturned("saveCallArguments", 1)
    /\ Len(m_arguments) = 2
    /\ m_arguments[1].reg = "NONE" /\ m_arguments[1].size = SuppliedSize
    /\ m_arguments[2].reg # "NONE" /\ m_arguments[2].size > SuppliedSize
    /\ m_savedCallArguments # <<>>
    /\ Len(Back(m_savedCallArguments)) = m_arguments[1].size + m_arguments[2].size

\* The descriptors, the alignment and the cached sizes.
Layout == <<m_arguments, m_return, m_alignment, m_stackSize, m_registerSize>>

\* C18: saveReturnValue and restoreReturnValue leave the argument-buffer stack
\* and every argument location as they are, saveCallArguments and
\* restoreCallArguments leave the return-buffer stack and the return slot as
\* they are, and none of the four changes a descriptor, the alignment or the
\* cached stack and register sizes.
C18_StacksIndependent ==
    [][\A t \in Threads :
         /\ (SavesReturn(t) \/ RestoresReturn(t))
            => /\ m_savedCallArguments' = m_savedCallArguments
               /\ argMem' = argMem
               /\ Layout' = Layout
         /\ (SavesArguments(t) \/ RestoresArguments(t))
            => /\ m_savedReturnBuffers' = m_savedReturnBuffers
               /\ retMem' = retMem
               /\ Layout' = Layout]_vars

\* C18 witness: a return value has been saved while an argument buffer with
\* bytes other than zero is on the other stack.
C18_Witness ==
    /\ cret = CallReturned("saveReturnValue", 1)
    /\ m_return.size > 0
    /\ Len(m_savedReturnBuffers) = 1
    /\ Len(m_savedCallArguments) = 1
    /\ Len(m_arguments) >= 1
    /\ Back(m_savedCallArguments) # Fill(getArgStackSize + getArgRegisterSize, 0)
    /\ Back(m_savedReturnBuffers) # Back(m_savedCallArguments)

\* C19: getAddress() of a handle returns the address it was constructed with
\* and getMode() returns VTableSwap, for as long as the handle lives: no
\* hook() or unhook(), successful or failed, and no other step changes what
\* either returns.
C19_AddressAndModeFixed ==
    /\ [][\A h \in Handles, fnAddress \in {0} \cup Addrs :
            (VHook_ctor(h, fnAddress) /\ life'[h] = "alive")
            => getAddress(h)' = fnAddress]_vars
    /\ [][\A h \in Handles :
            (life[h] = "alive" /\ life'[h] = "alive")
            => /\ getAddress(h)' = getAddress(h)
               /\ getMode(h)' = getMode(h)]_vars
    /\ [](\A h \in Handles : life[h] = "alive" => getMode(h) = "VTableSwap")

\* C19 witness: a handle constructed for the last address has been hooked
\* and unhooked, a further unhook() has failed, and getAddress() still returns
\* that address.
C19_Witness ==
    \E h \in Handles :
        /\ ret.op = "unhook" /\ ret.h = h /\ ret.val = "false"
        /\ life[h] = "alive"
        /\ m_bridge[h] = Bridge(h)
        /\ getAddress(h) = NumAddrs
        /\ getMode(h) = "VTableSwap"

====
